---- MODULE Spec2Model ----
(***************************************************************************)
(* Visit scheduling of the Typecho visit scripts.                          *)
(*                                                                         *)
(*   precise_crawler.py  TypechoCrawler: quota allocation, shuffled jobs,  *)
(*                       semaphore-gated visits, per-url statistics        *)
(*   crawler.py          TypechoCrawler: random.choice jobs, semaphore,    *)
(*                       two global counters                               *)
(*   blog_visitor.py     TypechoVisitorPro: required phase, normal phase,  *)
(*   blog_visitor_pro.py TypechoVisitor:    per-class statistics           *)
(*                                                                         *)
(* A url is an article id (a natural number); a job is an index of tasks.  *)
(* asyncio runs one coroutine at a time: a step of the model is the code   *)
(* of one coroutine between two awaits (or a finer piece of it).           *)
(***************************************************************************)
EXTENDS Integers, Sequences, FiniteSets, TLC

VARIABLES
    script,          \* which script runs
    entry,           \* "main": the script's main flow; "simulate_visits": a direct call on a new object
    mainpc,          \* position of main() / execute() / the direct call
    session,         \* self.session of the crawler: "none", "open", "closed"
    discovered,      \* what link discovery found on the blog (input)
    article_urls,    \* self.article_urls (crawlers); the normal url list (visitors)
    required_urls,   \* the required url list read from posts.txt (visitors)
    total_visits,    \* total_visits / times / normal_visits
    max_concurrent,  \* max_concurrent of simulate_visits
    required_arg,    \* the required_visits argument: [given, value]; None is not given
    tasks,           \* the local list tasks of the running phase: records [url, cls]
    pc,              \* per job: position of its coroutine
    attempt,         \* per job: the loop variable attempt
    requests,        \* per job: number of session.get calls issued so far
    result,          \* per job: "none", "ok", "fail": what the requester returned
    wait_time,       \* per job: wait_time of fetch_url_with_retry while the job sleeps for it, else 0
    last_error,      \* per job: last_error of fetch_url_with_retry; after its return, the error returned
    max_retries,     \* the max_retries a requester runs with
    sem,             \* the value of asyncio.Semaphore(max_concurrent)
    visit_stats,     \* precise_crawler: url -> [success, failed] (a defaultdict)
    counters,        \* crawler.py: [success |-> success_count, failure |-> failure_count]
    stats,           \* visitors: class -> [success, failure, urls]
    report,          \* "none" or "produced"
    error,           \* "none" or the exception that was raised
    expired,         \* wall-clock time: whether the campaign's overall deadline has passed
    canon,           \* the successive results of _normalize_url on one link
    html_used        \* crawl_typecho_post: the visit whose html is parsed, 0 while there is none

vars == <<script, entry, mainpc, session, discovered, article_urls, required_urls,
          total_visits, max_concurrent, required_arg, tasks, pc, attempt, requests,
          result, wait_time, last_error, max_retries, sem, visit_stats, counters, stats,
          report, error, expired, canon, html_used>>

(***************************************************************************)
(* Bounds of the model.                                                    *)
(***************************************************************************)
MaxUrls == 1
MaxVisits == 2
MaxConcurrent == 2
MaxTimes == 1
MaxNormalVisits == 2
MaxRequiredJobs == 1
MaxTargets == 4
MaxBudget == 16
MaxRetriesArg == 3
MaxLinkLen == 5

(***************************************************************************)
(* Program constants.                                                      *)
(***************************************************************************)
DefaultMaxRetries == 3
ConfigMaxRetries == 2
ReqPerUrl == 3
ConnLimit == 15
ConnLimitPro == 10

CrawlerScripts == {"precise_crawler", "crawler"}
VisitorScripts == {"blog_visitor", "blog_visitor_pro"}

\* The default article ids a crawler falls back to.
CrawlerDefaultUrls == <<13, 5, 1>>
\* CONFIG['default_urls'] of the visitors.
VisitorDefaultUrls == <<13, 5>>

\* A list of n distinct discovered article ids.
UrlList(n) == [i \in 1..n |-> i]

Range(s) == {s[i] : i \in 1..Len(s)}

(***************************************************************************)
(* Quota allocation.                                                       *)
(***************************************************************************)
base_visits(V, n) == V \div n

remaining_visits(V, n) == V % n

\* bug variants of VisitsFor: the remainder handed to the last urls; the remainder dropped
VisitsForBackLoaded(i, V, n) == base_visits(V, n) + (IF i >= n - remaining_visits(V, n) THEN 1 ELSE 0)

VisitsForNoRemainder(i, V, n) == base_visits(V, n)

\* visits of the url at enumerate index i (0-based): base_visits + (1 if i < remaining_visits else 0)
VisitsFor(i, V, n) == base_visits(V, n) + (IF i < remaining_visits(V, n) THEN 1 ELSE 0)

RECURSIVE Repeat(_, _)
Repeat(x, c) == IF c <= 0 THEN <<>> ELSE <<x>> \o Repeat(x, c - 1)

RECURSIVE BuildFrom(_, _, _, _)
BuildFrom(urls, V, cls, i) ==
    IF i > Len(urls) THEN <<>>
    ELSE Repeat([url |-> urls[i], cls |-> cls], VisitsFor(i - 1, V, Len(urls)))
         \o BuildFrom(urls, V, cls, i + 1)

\* the tasks list built by the two nested loops, in input order
BuildTasks(urls, V, cls) == BuildFrom(urls, V, cls, 1)

\* bug variant of Shuffles: a draw with replacement instead of a rearrangement
Resamples(s) == {[i \in 1..Len(s) |-> s[p[i]]] : p \in [1..Len(s) -> 1..Len(s)]}

\* random.shuffle(tasks): any rearrangement of the list
Shuffles(s) == {[i \in 1..Len(s) |-> s[p[i]]] : p \in Permutations(1..Len(s))}

\* number of jobs of the list for url u
CountFor(ts, u) == Cardinality({j \in 1..Len(ts) : ts[j].url = u})


(***************************************************************************)
(* Statistics.                                                             *)
(***************************************************************************)
NoStats == [success |-> 0, failed |-> 0]

\* defaultdict lookup: a missing key reads as a new zero entry
StatsOf(vs, u) == IF u \in DOMAIN vs THEN vs[u] ELSE NoStats

\* defaultdict lookups of the keys us: the missing ones are inserted
Touch(vs, us) == [x \in (DOMAIN vs) \cup us |-> StatsOf(vs, x)]

\* bug variant of RecordVisit: the outcome is not written down
RecordVisitSkipped(vs, u, ok) == vs

\* bug variant of RecordVisit: the counter is set, not incremented
RecordVisitOverwrite(vs, u, ok) ==
    [x \in (DOMAIN vs) \cup {u} |->
        IF x # u THEN vs[x]
        ELSE IF ok THEN [StatsOf(vs, u) EXCEPT !.success = 1]
             ELSE [StatsOf(vs, u) EXCEPT !.failed = 1]]

\* self.visit_stats[url]['success'] += 1  /  self.visit_stats[url]['failed'] += 1
RecordVisit(vs, u, ok) ==
    [x \in (DOMAIN vs) \cup {u} |->
        IF x # u THEN vs[x]
        ELSE IF ok THEN [StatsOf(vs, u) EXCEPT !.success = @ + 1]
             ELSE [StatsOf(vs, u) EXCEPT !.failed = @ + 1]]

\* bug variant of RecordCount: the failure counter moves on every visit
RecordCountBoth(c, ok) ==
    IF ok THEN [c EXCEPT !.success = @ + 1, !.failure = @ + 1] ELSE [c EXCEPT !.failure = @ + 1]

\* self.success_count += 1  /  self.failure_count += 1
RecordCount(c, ok) ==
    IF ok THEN [c EXCEPT !.success = @ + 1] ELSE [c EXCEPT !.failure = @ + 1]

\* a / b * 100 of the report: Python raises ZeroDivisionError when b is 0
Percent(a, b) ==
    IF b = 0 THEN [raised |-> TRUE, value |-> 0]
    ELSE [raised |-> FALSE, value |-> (a * 100) \div b]

\* (a / b * 100) if b > 0 else 0
GuardedPercent(a, b) == IF b > 0 THEN Percent(a, b) ELSE [raised |-> FALSE, value |-> 0]

(***************************************************************************)
(* The retrying requester of the crawlers: fetch_url_with_retry.           *)
(***************************************************************************)
\* What a request attempt can end in: an HTTP status, or 0 for an exception
\* (timeout, transport error) raised by session.get.
Statuses == {0, 200, 204, 429, 500}

MaxRetriesOf(s) == IF s \in CrawlerScripts THEN DefaultMaxRetries ELSE ConfigMaxRetries

\* range(max_retries): the number of passes of the crawlers' attempt loop
CrawlerAttempts(retries) == IF retries > 0 THEN retries ELSE 0

\* bug variant of HasNextAttempt: the backoff sleep is never taken
HasNextAttemptNever(a, retries) == FALSE

\* if attempt < max_retries - 1: the backoff sleep before the next pass
HasNextAttempt(a, retries) == a < retries - 1

Jobs == 1..Len(tasks)

\* bug variant of CanAcquire: a semaphore at zero still lets a job in
CanAcquireAtZero(value) == value >= 0

\* bug variant of CanAcquire: a job starts only while no other job holds a slot
CanAcquireWhenIdle(value) == value > 0 /\ value >= max_concurrent

\* bug variant of CanAcquire: no wait for a free slot
AcquireUnguarded(value) == TRUE

\* Semaphore.acquire returns without waiting only while the value is positive
CanAcquire(value) == value > 0

\* async with semaphore: a pending job takes a slot
Acquire(j) ==
    /\ script \in CrawlerScripts
    /\ mainpc = "gather"
    /\ pc[j] = "pending"
    /\ CanAcquire(sem)
    /\ sem' = sem - 1
    /\ pc' = [pc EXCEPT ![j] = "delay"]
    /\ UNCHANGED <<html_used, expired, canon, max_retries, script, entry, mainpc, session, discovered, article_urls, required_urls,
                   total_visits, max_concurrent, required_arg, tasks, wait_time, last_error, attempt, requests,
                   result, visit_stats, counters, stats, report, error>>

\* bug variant of FirstPass: the requests of all passes are sent at once
FirstPassAllAtOnce(j) ==
    /\ pc' = [pc EXCEPT ![j] = "request"]
    /\ requests' = [requests EXCEPT ![j] = @ + max_retries]
    /\ result' = result

\* fetch_url_with_retry starts: the first pass of the loop issues session.get,
\* or the loop is empty and the function returns False, last_error
FirstPass(j) ==
    IF CrawlerAttempts(max_retries) > 0
    THEN /\ pc' = [pc EXCEPT ![j] = "request"]
         /\ requests' = [requests EXCEPT ![j] = @ + 1]
         /\ result' = result
    ELSE /\ pc' = [pc EXCEPT ![j] = "record"]
         /\ result' = [result EXCEPT ![j] = "fail"]
         /\ requests' = requests

\* await asyncio.sleep(random.uniform(...)) is over; fetch_url_with_retry starts
PreDelayDone(j) ==
    /\ script \in CrawlerScripts
    /\ pc[j] = "delay"
    /\ FirstPass(j)
    /\ UNCHANGED <<html_used, expired, canon, max_retries, script, entry, mainpc, session, discovered, article_urls, required_urls,
                   total_visits, max_concurrent, required_arg, tasks, wait_time, last_error, attempt,
                   sem, visit_stats, counters, stats, report, error>>

\* random.uniform(1.0, 3.0), in whole seconds
UniformWaits == {1, 2, 3}

\* bug variant of PenaltyWait: the penalty is no longer than a backoff
PenaltyWaitShort(a) == (a + 1) * 2

\* wait_time = (attempt + 1) * 5 of a rate-limited attempt
PenaltyWait(a) == (a + 1) * 5

\* wait_time = random.uniform(1.0, 3.0) * (attempt + 1) before a retry
BackoffWaits(a) == {w * (a + 1) : w \in UniformWaits}

\* for attempt in range(max_retries): there is a pass after pass a
LoopContinues(a, retries) == a + 1 < CrawlerAttempts(retries)

\* the end of a pass that did not return: the backoff sleep when
\* attempt < max_retries - 1, then the next pass of the loop if there is one,
\* else return False, last_error
EndOfPass(j) ==
    IF HasNextAttempt(attempt[j], max_retries)
    THEN /\ pc' = [pc EXCEPT ![j] = "backoff"]
         /\ \E w \in BackoffWaits(attempt[j]) : wait_time' = [wait_time EXCEPT ![j] = w]
         /\ UNCHANGED <<attempt, requests, result>>
    ELSE IF LoopContinues(attempt[j], max_retries)
    THEN /\ pc' = [pc EXCEPT ![j] = "request"]
         /\ attempt' = [attempt EXCEPT ![j] = @ + 1]
         /\ requests' = [requests EXCEPT ![j] = @ + 1]
         /\ wait_time' = [wait_time EXCEPT ![j] = 0]
         /\ result' = result
    ELSE /\ pc' = [pc EXCEPT ![j] = "record"]
         /\ result' = [result EXCEPT ![j] = "fail"]
         /\ wait_time' = [wait_time EXCEPT ![j] = 0]
         /\ UNCHANGED <<attempt, requests>>

\* the response (or exception) of session.get arrives: a 200 returns True, a
\* 429 starts the rate-limit sleep, anything else ends the pass. What becomes
\* of last_error is said by the two actions built on this one.
Response(j, status) ==
    /\ script \in CrawlerScripts
    /\ pc[j] = "request"
    /\ IF status = 200
       THEN /\ pc' = [pc EXCEPT ![j] = "record"]
            /\ result' = [result EXCEPT ![j] = "ok"]
            /\ UNCHANGED <<attempt, requests, wait_time>>
       ELSE IF status = 429
       THEN /\ pc' = [pc EXCEPT ![j] = "penalty"]
            /\ wait_time' = [wait_time EXCEPT ![j] = PenaltyWait(attempt[j])]
            /\ UNCHANGED <<attempt, requests, result>>
       ELSE EndOfPass(j)
    /\ UNCHANGED <<html_used, expired, canon, max_retries, script, entry, mainpc, session, discovered, article_urls,
                   required_urls, total_visits, max_concurrent, required_arg, tasks,
                   sem, visit_stats, counters, stats, report, error>>

\* the text of last_error after an attempt that ended in status
ErrorOf(status) ==
    IF status = 0 THEN "exception" ELSE "HTTP status " \o ToString(status)

\* bug variant of LastError: the first error of the visit is kept
LastErrorFirst(old, status) ==
    IF status = 200 THEN "" ELSE IF old = "" THEN ErrorOf(status) ELSE old

\* last_error = f"HTTP status {response.status}" and last_error = str(e)
\* overwrite the old value; return True, "" hands back the empty error
LastError(old, status) == IF status = 200 THEN "" ELSE ErrorOf(status)

\* Response with last_error followed
FetchResponse(j, status) ==
    /\ Response(j, status)
    /\ last_error' = [last_error EXCEPT ![j] = LastError(@, status)]

\* Response inside a campaign: last_error only feeds the log line of
\* visit_with_semaphore and is not followed there
CampaignResponse(j, status) ==
    /\ Response(j, status)
    /\ UNCHANGED last_error

\* a direct call of fetch_url_with_retry(url, max_retries) starts
FetchCall(j) ==
    /\ script \in CrawlerScripts
    /\ pc[j] = "call"
    /\ FirstPass(j)
    /\ UNCHANGED <<html_used, expired, canon, max_retries, script, entry, mainpc, session, discovered, article_urls,
                   required_urls, total_visits, max_concurrent, required_arg, tasks, wait_time,
                   last_error, attempt, sem, visit_stats, counters, stats, report, error>>

\* the rate-limit sleep is over: the pass ends
PenaltyDone(j) ==
    /\ script \in CrawlerScripts
    /\ pc[j] = "penalty"
    /\ EndOfPass(j)
    /\ UNCHANGED <<html_used, expired, canon, max_retries, script, entry, mainpc, session, discovered, article_urls,
                   required_urls, total_visits, max_concurrent, required_arg, tasks, last_error,
                   sem, visit_stats, counters, stats, report, error>>

\* the backoff sleep is over: the next pass of the loop issues session.get
BackoffDone(j) ==
    /\ script \in CrawlerScripts
    /\ pc[j] = "backoff"
    /\ IF LoopContinues(attempt[j], max_retries)
       THEN /\ attempt' = [attempt EXCEPT ![j] = @ + 1]
            /\ requests' = [requests EXCEPT ![j] = @ + 1]
            /\ pc' = [pc EXCEPT ![j] = "request"]
            /\ result' = result
       ELSE /\ pc' = [pc EXCEPT ![j] = "record"]
            /\ result' = [result EXCEPT ![j] = "fail"]
            /\ UNCHANGED <<attempt, requests>>
    /\ wait_time' = [wait_time EXCEPT ![j] = 0]
    /\ UNCHANGED <<html_used, expired, canon, max_retries, script, entry, mainpc, session, discovered, article_urls,
                   required_urls, total_visits, max_concurrent, required_arg, tasks, last_error,
                   sem, visit_stats, counters, stats, report, error>>

\* visit_with_semaphore records what fetch_url_with_retry returned
Record(j) ==
    /\ script \in CrawlerScripts
    /\ pc[j] = "record"
    /\ IF script = "precise_crawler"
       THEN /\ visit_stats' = RecordVisit(visit_stats, tasks[j].url, result[j] = "ok")
            /\ counters' = counters
       ELSE /\ counters' = RecordCount(counters, result[j] = "ok")
            /\ visit_stats' = visit_stats
    /\ pc' = [pc EXCEPT ![j] = "release"]
    /\ UNCHANGED <<html_used, expired, canon, max_retries, script, entry, mainpc, session, discovered, article_urls, required_urls,
                   total_visits, max_concurrent, required_arg, tasks, wait_time, last_error, attempt, requests,
                   result, sem, stats, report, error>>

\* bug variant of Release: the job ends without giving its slot back
ReleaseKeepsSlot(j) ==
    /\ script \in CrawlerScripts
    /\ pc[j] = "release"
    /\ pc' = [pc EXCEPT ![j] = "done"]
    /\ UNCHANGED <<html_used, expired, canon, max_retries, script, entry, mainpc, session, discovered, article_urls, required_urls,
                   total_visits, max_concurrent, required_arg, tasks, wait_time, last_error, attempt, requests,
                   result, sem, visit_stats, counters, stats, report, error>>

\* the end of the async with block: the slot goes back
Release(j) ==
    /\ script \in CrawlerScripts
    /\ pc[j] = "release"
    /\ sem' = sem + 1
    /\ pc' = [pc EXCEPT ![j] = "done"]
    /\ UNCHANGED <<html_used, expired, canon, max_retries, script, entry, mainpc, session, discovered, article_urls, required_urls,
                   total_visits, max_concurrent, required_arg, tasks, wait_time, last_error, attempt, requests,
                   result, visit_stats, counters, stats, report, error>>

(***************************************************************************)
(* The crawlers: main() and simulate_visits.                               *)
(***************************************************************************)
JobVars == <<tasks, pc, attempt, requests, result, wait_time, last_error, sem>>

\* the job state of a freshly created task list ts; each job starts at pc0
StartJobs(ts, pc0, value) ==
    /\ tasks' = ts
    /\ pc' = [j \in 1..Len(ts) |-> pc0]
    /\ attempt' = [j \in 1..Len(ts) |-> 0]
    /\ requests' = [j \in 1..Len(ts) |-> 0]
    /\ result' = [j \in 1..Len(ts) |-> "none"]
    /\ wait_time' = [j \in 1..Len(ts) |-> 0]
    /\ last_error' = [j \in 1..Len(ts) |-> ""]
    /\ sem' = value

\* bug variant of WithFallback: the empty list is kept
WithoutFallback(urls, defaults) == urls

\* if not urls: urls = the default urls
WithFallback(urls, defaults) == IF urls = <<>> THEN defaults ELSE urls

\* bug variant of GatherReturns: the tasks are started and not awaited
GatherReturnsAtOnce(p) == TRUE

\* bug variant of GatherReturns: the wait ends with the first task that finishes
GatherReturnsEarly(p) == p = <<>> \/ \E j \in DOMAIN p : p[j] = "done"

\* await asyncio.gather(*tasks) returns when every task of the list has finished
GatherReturns(p) == \A j \in DOMAIN p : p[j] = "done"

\* bug variant of AfterSimulate: main goes back to discovery after a run
AfterSimulateRestart == IF entry = "main" THEN "get_article_urls" ELSE "returned"

\* where control goes when simulate_visits returns
AfterSimulate == IF entry = "main" THEN "generate_report" ELSE "returned"

\* where control goes when an exception leaves the try block of main
AfterRaise == IF entry = "main" THEN "close_session" ELSE "raised"

InitSession ==
    /\ script \in CrawlerScripts
    /\ mainpc = "init_session"
    /\ session' = "open"
    /\ mainpc' = "get_article_urls"
    /\ UNCHANGED <<html_used, expired, canon, max_retries, script, entry, discovered, article_urls, required_urls, total_visits,
                   max_concurrent, required_arg, JobVars, visit_stats, counters, stats,
                   report, error>>

\* get_article_urls: the links found on the blog (none when every page fails),
\* the default urls when none was found; crawler.py shuffles the list
GetArticleUrls ==
    /\ script \in CrawlerScripts
    /\ mainpc = "get_article_urls"
    /\ \E n \in 0..MaxUrls :
         /\ discovered' = UrlList(n)
         /\ article_urls' \in
              (IF script = "crawler"
               THEN Shuffles(WithFallback(UrlList(n), CrawlerDefaultUrls))
               ELSE {WithFallback(UrlList(n), CrawlerDefaultUrls)})
    /\ mainpc' = "check"
    /\ UNCHANGED <<html_used, expired, canon, max_retries, script, entry, session, required_urls, total_visits,
                   max_concurrent, required_arg, JobVars, visit_stats, counters, stats,
                   report, error>>

\* main: if not article_urls: log the error and return (through finally)
CheckArticles ==
    /\ script \in CrawlerScripts
    /\ mainpc = "check"
    /\ IF article_urls = <<>>
       THEN mainpc' = "close_session" /\ error' = "NoArticles"
       ELSE mainpc' = "simulate_visits" /\ error' = error
    /\ UNCHANGED <<html_used, expired, canon, max_retries, script, entry, session, discovered, article_urls, required_urls,
                   total_visits, max_concurrent, required_arg, JobVars, visit_stats,
                   counters, stats, report>>

\* bug variant of SimulateVisits: random.shuffle is applied to the target list
\* the job list is built from
SimulateVisitsShufflesTargets ==
    /\ script = "precise_crawler"
    /\ mainpc = "simulate_visits"
    /\ IF article_urls = <<>>
       THEN /\ mainpc' = AfterSimulate
            /\ article_urls' = article_urls
            /\ UNCHANGED JobVars
       ELSE /\ \E us \in Shuffles(article_urls) :
                 /\ article_urls' = us
                 /\ StartJobs(BuildTasks(us, total_visits, "normal"), "pending", max_concurrent)
            /\ mainpc' = "gather"
    /\ UNCHANGED <<html_used, expired, canon, max_retries, script, entry, session, discovered, required_urls,
                   total_visits, max_concurrent, required_arg, visit_stats, counters,
                   stats, report, error>>

\* precise_crawler simulate_visits up to the gather: the guard, the allocation,
\* the shuffle, the semaphore, one task per list element
SimulateVisits ==
    /\ script = "precise_crawler"
    /\ mainpc = "simulate_visits"
    /\ IF article_urls = <<>>
       THEN /\ mainpc' = AfterSimulate
            /\ UNCHANGED JobVars
       ELSE /\ \E ts \in Shuffles(BuildTasks(article_urls, total_visits, "normal")) :
                 StartJobs(ts, "pending", max_concurrent)
            /\ mainpc' = "gather"
    /\ UNCHANGED <<html_used, expired, canon, max_retries, script, entry, session, discovered, article_urls, required_urls,
                   total_visits, max_concurrent, required_arg, visit_stats, counters,
                   stats, report, error>>

\* crawler.py simulate_visits up to the gather: the counters are reset, each of
\* the times tasks visits random.choice(self.article_urls), which raises
\* IndexError on an empty list
SimulateVisitsRandom ==
    /\ script = "crawler"
    /\ mainpc = "simulate_visits"
    /\ counters' = [success |-> 0, failure |-> 0]
    /\ IF total_visits > 0 /\ article_urls = <<>>
       THEN /\ error' = "IndexError"
            /\ mainpc' = AfterRaise
            /\ UNCHANGED JobVars
       ELSE /\ \E ts \in [1..total_visits ->
                            {[url |-> u, cls |-> "normal"] : u \in Range(article_urls)}] :
                 StartJobs(ts, "pending", max_concurrent)
            /\ mainpc' = "gather"
            /\ error' = error
    /\ UNCHANGED <<html_used, expired, canon, max_retries, script, entry, session, discovered, article_urls, required_urls,
                   total_visits, max_concurrent, required_arg, visit_stats,
                   stats, report>>

\* await asyncio.gather(...) returns once every task has finished
GatherDone ==
    /\ script \in CrawlerScripts
    /\ mainpc = "gather"
    /\ GatherReturns(pc)
    /\ mainpc' = AfterSimulate
    /\ UNCHANGED <<html_used, expired, canon, max_retries, script, entry, session, discovered, article_urls, required_urls,
                   total_visits, max_concurrent, required_arg, JobVars, visit_stats,
                   counters, stats, report, error>>

Sum2(f, S) == LET RECURSIVE Acc(_)
                  Acc(T) == IF T = {} THEN 0
                            ELSE LET x == CHOOSE y \in T : TRUE IN f[x] + Acc(T \ {x})
              IN Acc(S)

total_success(vs) == Sum2([u \in DOMAIN vs |-> vs[u].success], DOMAIN vs)

total_failed(vs) == Sum2([u \in DOMAIN vs |-> vs[u].failed], DOMAIN vs)

\* the rates generate_report computes, in order: the total one is guarded,
\* the one of each article is not
ReportRates(s, vs, urls, c) ==
    IF s = "precise_crawler"
    THEN {GuardedPercent(total_success(vs), total_success(vs) + total_failed(vs))}
         \cup {Percent(StatsOf(vs, u).success, StatsOf(vs, u).success + StatsOf(vs, u).failed) :
                   u \in Range(urls)}
    ELSE {GuardedPercent(c.success, c.success + c.failure)}

\* generate_report; a ZeroDivisionError is caught by main's except Exception
GenerateReport ==
    /\ script \in CrawlerScripts
    /\ mainpc = "generate_report"
    /\ visit_stats' = (IF script = "precise_crawler"
                       THEN Touch(visit_stats, Range(article_urls))
                       ELSE visit_stats)
    /\ IF \E r \in ReportRates(script, visit_stats, article_urls, counters) : r.raised
       THEN error' = "ZeroDivisionError" /\ report' = report
       ELSE report' = "produced" /\ error' = error
    /\ mainpc' = "close_session"
    /\ UNCHANGED <<html_used, expired, canon, max_retries, script, entry, session, discovered, article_urls, required_urls,
                   total_visits, max_concurrent, required_arg, JobVars, counters, stats>>

\* finally: await crawler.close_session()
CloseSession ==
    /\ script \in CrawlerScripts
    /\ mainpc = "close_session"
    /\ session' = (IF session = "open" THEN "closed" ELSE session)
    /\ mainpc' = "done"
    /\ UNCHANGED <<html_used, expired, canon, max_retries, script, entry, discovered, article_urls, required_urls, total_visits,
                   max_concurrent, required_arg, JobVars, visit_stats, counters, stats,
                   report, error>>

(***************************************************************************)
(* The visitors: execute, the two phases and _visit_url / _visit.          *)
(***************************************************************************)
None == [given |-> FALSE, value |-> 0]

Given(v) == [given |-> TRUE, value |-> v]

\* blog_visitor:      required_visits or CONFIG['req_per_url']
\* blog_visitor_pro:  required_visits if required_visits is not None else CONFIG['req_per_url']
RequiredVisitsPerUrl(s, r) ==
    IF s = "blog_visitor"
    THEN (IF ~r.given \/ r.value = 0 THEN ReqPerUrl ELSE r.value)
    ELSE (IF ~r.given THEN ReqPerUrl ELSE r.value)

NoClassStats == [success |-> 0, failure |-> 0, urls |-> <<>>]

\* bug variant of RecordSuccess: the class total is counted, the url is not
RecordSuccessWithoutUrl(st, key, u) == [st EXCEPT ![key].success = @ + 1]

\* bug variant of RecordSuccess: the success is left for the caller to count
RecordSuccessLeftOut(st, key, u) == st

\* self.stats[key]['success'] += 1; self.stats[key]['urls'][url] = ....get(url, 0) + 1
RecordSuccess(st, key, u) ==
    [st EXCEPT ![key] =
        [success |-> @.success + 1,
         failure |-> @.failure,
         urls |-> [x \in (DOMAIN @.urls) \cup {u} |->
                      IF x = u THEN (IF u \in DOMAIN @.urls THEN @.urls[u] ELSE 0) + 1
                      ELSE @.urls[x]]]]

\* bug variant of RecordFailure: the exhausted job is counted on both sides
RecordFailureOnBothSides(st, key) ==
    [st EXCEPT ![key].failure = @ + 1, ![key].success = @ + 1]

\* bug variant of RecordFailure: the exhausted job is not counted
RecordFailureDropped(st, key) == st

\* self.stats[key]['failure'] += 1
RecordFailure(st, key) == [st EXCEPT ![key].failure = @ + 1]

\* if attempt < CONFIG['max_retries']: sleep and go round again
VisitorHasNextAttempt(a, retries) == a < retries

RECURSIVE RequiredFrom(_, _, _)
RequiredFrom(urls, r, i) ==
    IF i > Len(urls) THEN <<>>
    ELSE Repeat([url |-> urls[i], cls |-> "required"], r) \o RequiredFrom(urls, r, i + 1)

\* bug variant of RequiredTasks: r is split among the urls like a budget
RequiredTasksShared(urls, r) == BuildTasks(urls, r, "required")

\* for url in urls: for _ in range(required_visits_per_url): one task
RequiredTasks(urls, r) == RequiredFrom(urls, r, 1)

\* the required lists posts.txt can hold and the required_visits arguments,
\* within the bound on the number of required jobs
RequiredInputs(s) ==
    {<<m, r>> \in (0..MaxRequiredJobs) \X ({None} \cup {Given(v) : v \in 0..MaxRequiredJobs}) :
        m * RequiredVisitsPerUrl(s, r) <= MaxRequiredJobs}

\* _get_url_lists: the required urls of posts.txt (none when the file is empty
\* or unreadable), the discovered normal urls or else the fallback urls
GetUrlLists ==
    /\ script \in VisitorScripts
    /\ mainpc = "get_url_lists"
    /\ \E m \in 0..MaxRequiredJobs :
         /\ <<m, required_arg>> \in RequiredInputs(script)
         /\ required_urls' = UrlList(m)
    /\ \E n \in 0..MaxUrls :
         /\ discovered' = UrlList(n)
         /\ article_urls' = WithFallback(UrlList(n), VisitorDefaultUrls)
    /\ mainpc' = "run_required_visits"
    /\ UNCHANGED <<html_used, expired, canon, max_retries, script, entry, session, total_visits, max_concurrent, required_arg,
                   JobVars, visit_stats, counters, stats, report, error>>

\* _run_required_visits up to the gather
RunRequiredVisits ==
    /\ script \in VisitorScripts
    /\ mainpc = "run_required_visits"
    /\ IF required_urls = <<>>
       THEN /\ mainpc' = "run_normal_visits"
            /\ UNCHANGED JobVars
       ELSE /\ StartJobs(RequiredTasks(required_urls, RequiredVisitsPerUrl(script, required_arg)),
                      "delay", sem)
            /\ mainpc' = "required_gather"
    /\ UNCHANGED <<html_used, expired, canon, max_retries, script, entry, session, discovered, article_urls, required_urls,
                   total_visits, max_concurrent, required_arg, visit_stats, counters,
                   stats, report, error>>

\* await asyncio.gather(*tasks) of the required phase returns
RequiredGatherDone ==
    /\ script \in VisitorScripts
    /\ mainpc = "required_gather"
    /\ GatherReturns(pc)
    /\ mainpc' = "run_normal_visits"
    /\ UNCHANGED <<html_used, expired, canon, max_retries, script, entry, session, discovered, article_urls, required_urls,
                   total_visits, max_concurrent, required_arg, JobVars, visit_stats,
                   counters, stats, report, error>>

\* _run_normal_visits up to the gather: the two guards, the allocation
RunNormalVisits ==
    /\ script \in VisitorScripts
    /\ mainpc = "run_normal_visits"
    /\ IF total_visits <= 0 \/ article_urls = <<>>
       THEN /\ mainpc' = "send_report"
            /\ UNCHANGED JobVars
       ELSE /\ StartJobs(BuildTasks(article_urls, total_visits, "normal"), "delay", sem)
            /\ mainpc' = "normal_gather"
    /\ UNCHANGED <<html_used, expired, canon, max_retries, script, entry, session, discovered, article_urls, required_urls,
                   total_visits, max_concurrent, required_arg, visit_stats, counters,
                   stats, report, error>>

\* await asyncio.gather(*tasks) of the normal phase returns
NormalGatherDone ==
    /\ script \in VisitorScripts
    /\ mainpc = "normal_gather"
    /\ GatherReturns(pc)
    /\ mainpc' = "send_report"
    /\ UNCHANGED <<html_used, expired, canon, max_retries, script, entry, session, discovered, article_urls, required_urls,
                   total_visits, max_concurrent, required_arg, JobVars, visit_stats,
                   counters, stats, report, error>>

\* CONFIG['conn_limit'] of the script: the limit of the session's TCPConnector
ConnLimitOf(s) == IF s = "blog_visitor" THEN ConnLimit ELSE ConnLimitPro

\* the jobs whose request holds a connection of the session
InRequest == {j \in Jobs : pc[j] = "request"}

\* the jitter sleep at the top of the loop is over: session.get is issued, and
\* goes out once the connector has a free connection
VisitDelayDone(j) ==
    /\ script \in VisitorScripts
    /\ pc[j] = "delay"
    /\ Cardinality(InRequest) < ConnLimitOf(script)
    /\ pc' = [pc EXCEPT ![j] = "request"]
    /\ requests' = [requests EXCEPT ![j] = @ + 1]
    /\ UNCHANGED <<html_used, expired, canon, max_retries, script, entry, mainpc, session, discovered, article_urls, required_urls,
                   total_visits, max_concurrent, required_arg, tasks, wait_time, last_error, attempt,
                   result, sem, visit_stats, counters, stats, report, error>>

\* the response (or exception) arrives: a 200 is counted and returned; after the
\* last attempt the failure is counted
VisitResponse(j, status) ==
    /\ script \in VisitorScripts
    /\ pc[j] = "request"
    /\ IF status = 200
       THEN /\ stats' = RecordSuccess(stats, tasks[j].cls, tasks[j].url)
            /\ pc' = [pc EXCEPT ![j] = "done"]
            /\ result' = [result EXCEPT ![j] = "ok"]
       ELSE IF VisitorHasNextAttempt(attempt[j], max_retries)
       THEN /\ pc' = [pc EXCEPT ![j] = "backoff"]
            /\ UNCHANGED <<stats, result>>
       ELSE /\ stats' = RecordFailure(stats, tasks[j].cls)
            /\ pc' = [pc EXCEPT ![j] = "done"]
            /\ result' = [result EXCEPT ![j] = "fail"]
    /\ UNCHANGED <<html_used, expired, canon, max_retries, script, entry, mainpc, session, discovered, article_urls, required_urls,
                   total_visits, max_concurrent, required_arg, tasks, wait_time, last_error, attempt, requests,
                   sem, visit_stats, counters, report, error>>

\* the retry sleep is over: the next pass of the loop starts with its jitter sleep
VisitBackoffDone(j) ==
    /\ script \in VisitorScripts
    /\ pc[j] = "backoff"
    /\ attempt' = [attempt EXCEPT ![j] = @ + 1]
    /\ pc' = [pc EXCEPT ![j] = "delay"]
    /\ UNCHANGED <<html_used, expired, canon, max_retries, script, entry, mainpc, session, discovered, article_urls, required_urls,
                   total_visits, max_concurrent, required_arg, tasks, wait_time, last_error, requests,
                   result, sem, visit_stats, counters, stats, report, error>>

\* the rates _generate_report computes: none of them is guarded
VisitorReportRates(s, st, normal_visits) ==
    {Percent(st["required"].success, st["required"].success + st["required"].failure),
     Percent(st["normal"].success, normal_visits)}
    \cup (IF s = "blog_visitor"
          THEN {Percent(st["required"].success + st["normal"].success,
                        st["required"].success + st["normal"].success
                        + st["required"].failure + st["normal"].failure)}
          ELSE {})

\* _send_report: _generate_report first; its ZeroDivisionError leaves execute
SendReport ==
    /\ script \in VisitorScripts
    /\ mainpc = "send_report"
    /\ IF \E r \in VisitorReportRates(script, stats, total_visits) : r.raised
       THEN error' = "ZeroDivisionError" /\ report' = report /\ mainpc' = "crashed"
       ELSE report' = "produced" /\ error' = error /\ mainpc' = "done"
    /\ UNCHANGED <<html_used, expired, canon, max_retries, script, entry, session, discovered, article_urls, required_urls,
                   total_visits, max_concurrent, required_arg, JobVars, visit_stats,
                   counters, stats>>

(***************************************************************************)
(* Specifications.                                                         *)
(***************************************************************************)
\* the state of a new object, whatever the script
InitObject ==
    /\ session = "none"
    /\ discovered = <<>>
    /\ article_urls = <<>>
    /\ required_urls = <<>>
    /\ tasks = <<>>
    /\ pc = <<>>
    /\ attempt = <<>>
    /\ requests = <<>>
    /\ result = <<>>
    /\ wait_time = <<>>
    /\ last_error = <<>>
    /\ html_used = 0
    /\ sem = 0
    /\ visit_stats = <<>>
    /\ counters = [success |-> 0, failure |-> 0]
    /\ stats = [required |-> NoClassStats, normal |-> NoClassStats]
    /\ report = "none"
    /\ error = "none"
    /\ expired = FALSE

\* a crawler: main(), or simulate_visits called on a new object
InitCrawler ==
    /\ script \in CrawlerScripts
    /\ entry \in {"main", "simulate_visits"}
    /\ mainpc = (IF entry = "main" THEN "init_session" ELSE "simulate_visits")
    /\ total_visits \in 0..(IF script = "crawler" THEN MaxTimes ELSE MaxVisits)
    /\ max_concurrent \in 0..MaxConcurrent
    /\ required_arg = None
    /\ max_retries = MaxRetriesOf(script)
    /\ canon = <<>>
    /\ InitObject

\* a visitor: main() builds the object and runs execute
InitVisitor ==
    /\ script \in VisitorScripts
    /\ entry = "main"
    /\ mainpc = "get_url_lists"
    /\ total_visits \in 0..MaxNormalVisits
    /\ max_concurrent = 0
    /\ required_arg \in {None} \cup {Given(v) : v \in 0..MaxRequiredJobs}
    /\ max_retries = MaxRetriesOf(script)
    /\ canon = <<>>
    /\ InitObject

Init == InitCrawler \/ InitVisitor

NextCrawler ==
    \/ InitSession
    \/ GetArticleUrls
    \/ CheckArticles
    \/ SimulateVisits
    \/ SimulateVisitsRandom
    \/ GatherDone
    \/ GenerateReport
    \/ CloseSession
    \/ \E j \in Jobs : Acquire(j)
    \/ \E j \in Jobs : PreDelayDone(j)
    \/ \E j \in Jobs : \E status \in Statuses : CampaignResponse(j, status)
    \/ \E j \in Jobs : PenaltyDone(j)
    \/ \E j \in Jobs : BackoffDone(j)
    \/ \E j \in Jobs : Record(j)
    \/ \E j \in Jobs : Release(j)

NextVisitor ==
    \/ GetUrlLists
    \/ RunRequiredVisits
    \/ RequiredGatherDone
    \/ RunNormalVisits
    \/ NormalGatherDone
    \/ SendReport
    \/ \E j \in Jobs : VisitDelayDone(j)
    \/ \E j \in Jobs : \E status \in Statuses : VisitResponse(j, status)
    \/ \E j \in Jobs : VisitBackoffDone(j)

Next == NextCrawler \/ NextVisitor

Spec == Init /\ [][Next]_vars

SpecCrawler == InitCrawler /\ [][NextCrawler]_vars

SpecVisitor == InitVisitor /\ [][NextVisitor]_vars

\* The crawlers under fair scheduling: the event loop runs every task that is
\* ready, every sleep ends, and every request ends in a response or in an
\* exception (the session has a total timeout), so a step that stays possible
\* is eventually taken.
SpecCrawlerFair == InitCrawler /\ [][NextCrawler]_vars /\ WF_vars(NextCrawler)

\* Wall-clock time passes while a campaign runs: the scripts read the clock only
\* to log elapsed times (time.time(), datetime.now()) and compare it with no
\* deadline. The overall deadline of a campaign passes at some moment.
DeadlineExpires ==
    /\ ~expired
    /\ expired' = TRUE
    /\ UNCHANGED <<html_used, canon, max_retries, script, entry, mainpc, session, discovered, article_urls, required_urls,
                   total_visits, max_concurrent, required_arg, JobVars, visit_stats,
                   counters, stats, report, error>>

NextDeadline == Next \/ DeadlineExpires

SpecDeadline == Init /\ [][NextDeadline]_vars

\* The allocation alone, on wider inputs: simulate_visits of precise_crawler up
\* to the end of its two nested loops; _run_required_visits and then
\* _run_normal_visits of the visitors, each up to its asyncio.gather, which
\* starts every coroutine of the list (the jobs themselves do not run here).
AllocScripts == {"precise_crawler", "blog_visitor", "blog_visitor_pro"}

InitAlloc ==
    /\ script \in AllocScripts
    /\ entry = "allocate"
    /\ mainpc = (IF script \in VisitorScripts THEN "allocate_required" ELSE "allocate")
    /\ total_visits \in 0..MaxBudget
    /\ max_concurrent = 0
    /\ required_arg \in (IF script \in VisitorScripts
                         THEN {None} \cup {Given(v) : v \in 0..MaxRequiredJobs}
                         ELSE {None})
    /\ max_retries = MaxRetriesOf(script)
    /\ canon = <<>>
    /\ InitObject

\* _run_required_visits up to the gather, for a posts.txt of m urls
AllocateRequired ==
    /\ mainpc = "allocate_required"
    /\ \E m \in 0..MaxTargets :
         /\ required_urls' = UrlList(m)
         /\ IF m = 0
            THEN UNCHANGED JobVars
            ELSE StartJobs(RequiredTasks(UrlList(m), RequiredVisitsPerUrl(script, required_arg)),
                           "delay", sem)
    /\ mainpc' = "required_allocated"
    /\ UNCHANGED <<html_used, expired, canon, max_retries, script, entry, session, discovered, article_urls, total_visits,
                   max_concurrent, required_arg, visit_stats, counters, stats, report, error>>

\* the two nested loops over the n normal urls; the visitors go on to the gather
Allocate ==
    /\ mainpc \in {"allocate", "required_allocated"}
    /\ \E n \in 0..MaxTargets :
         /\ article_urls' = UrlList(n)
         /\ IF script \in VisitorScripts
            THEN IF n = 0 \/ total_visits <= 0
                 THEN UNCHANGED JobVars
                 ELSE StartJobs(BuildTasks(UrlList(n), total_visits, "normal"), "delay", sem)
            ELSE /\ tasks' = (IF n = 0 THEN <<>> ELSE BuildTasks(UrlList(n), total_visits, "normal"))
                 /\ UNCHANGED <<pc, attempt, requests, result, wait_time, last_error, sem>>
    /\ mainpc' = "allocated"
    /\ UNCHANGED <<html_used, expired, canon, max_retries, script, entry, session, discovered, required_urls, total_visits,
                   max_concurrent, required_arg, visit_stats, counters, stats, report, error>>

NextAlloc == AllocateRequired \/ Allocate

SpecAlloc == InitAlloc /\ [][NextAlloc]_vars

(***************************************************************************)
(* One call of fetch_url_with_retry(url, max_retries) on a crawler with an *)
(* open session, for every max_retries, with last_error followed.  The call *)
(* ends at "record": result and last_error are what it returned.           *)
(***************************************************************************)
InitFetch ==
    /\ script \in CrawlerScripts
    /\ entry = "fetch_url_with_retry"
    /\ mainpc = "fetch"
    /\ session = "open"
    /\ max_retries \in (0 - 1)..MaxRetriesArg
    /\ total_visits = 0
    /\ max_concurrent = 0
    /\ required_arg = None
    /\ discovered = <<>>
    /\ article_urls = <<>>
    /\ required_urls = <<>>
    /\ tasks = <<[url |-> 1, cls |-> "normal"]>>
    /\ pc = <<"call">>
    /\ attempt = <<0>>
    /\ requests = <<0>>
    /\ result = <<"none">>
    /\ wait_time = <<0>>
    /\ last_error = <<"">>
    /\ canon = <<>>
    /\ html_used = 0
    /\ sem = 0
    /\ visit_stats = <<>>
    /\ counters = [success |-> 0, failure |-> 0]
    /\ stats = [required |-> NoClassStats, normal |-> NoClassStats]
    /\ report = "none"
    /\ error = "none"
    /\ expired = FALSE

NextFetch ==
    \/ \E j \in Jobs : FetchCall(j)
    \/ \E j \in Jobs : \E status \in Statuses : FetchResponse(j, status)
    \/ \E j \in Jobs : PenaltyDone(j)
    \/ \E j \in Jobs : BackoffDone(j)

SpecFetch == InitFetch /\ [][NextFetch]_vars

(***************************************************************************)
(* _normalize_url of the visitors, applied to one link and then to its own *)
(* results.  A string is the sequence of its characters.                   *)
(***************************************************************************)
\* the characters links are made of: the letters of http, the slash, the
\* fragment mark, and one other character
Chars == {"h", "t", "p", "/", "#", "a"}

\* the strings of at most n characters
Strings(n) == UNION {[1..k -> Chars] : k \in 0..n}

\* CONFIG['blog_url'], with the host www.207725.xyz written as one character
BlogUrl == <<"h", "t", "t", "p", "s", ":", "/", "/", "w">>

\* s.startswith(p)
StartsWith(s, p) == Len(s) >= Len(p) /\ SubSeq(s, 1, Len(p)) = p

\* s.split('#')[0]: what stands before the first '#'
BeforeFragment(s) ==
    LET marks == {i \in 1..Len(s) : s[i] = "#"}
    IN  IF marks = {} THEN s
        ELSE SubSeq(s, 1, (CHOOSE i \in marks : \A k \in marks : i <= k) - 1)

\* bug variant of _normalize_url: the blog url is put in front of every link
_normalize_url_always_joins(url) ==
    BeforeFragment(BlogUrl \o (IF StartsWith(url, <<"/">>) THEN url ELSE <<"/">> \o url))

\* _normalize_url
_normalize_url(url) ==
    IF StartsWith(url, <<"h", "t", "t", "p">>)
    THEN BeforeFragment(url)
    ELSE BeforeFragment(BlogUrl \o (IF StartsWith(url, <<"/">>) THEN url ELSE <<"/">> \o url))

InitNormalize ==
    /\ script \in VisitorScripts
    /\ entry = "_normalize_url"
    /\ mainpc = "normalize"
    /\ total_visits = 0
    /\ max_concurrent = 0
    /\ required_arg = None
    /\ max_retries = MaxRetriesOf(script)
    /\ canon \in {<<url>> : url \in Strings(MaxLinkLen)}
    /\ InitObject

\* _normalize_url is applied to the link, then to what it returned
Normalize ==
    /\ mainpc = "normalize"
    /\ Len(canon) <= 2
    /\ canon' = Append(canon, _normalize_url(canon[Len(canon)]))
    /\ UNCHANGED <<html_used, expired, max_retries, script, entry, mainpc, session, discovered, article_urls,
                   required_urls, total_visits, max_concurrent, required_arg, JobVars,
                   visit_stats, counters, stats, report, error>>

NextNormalize == Normalize

SpecNormalize == InitNormalize /\ [][NextNormalize]_vars

(***************************************************************************)
(* Properties.                                                             *)
(***************************************************************************)
\* the jobs inside the semaphore-guarded section of visit_with_semaphore
InSection == {j \in Jobs : pc[j] \in {"delay", "request", "penalty", "backoff", "record", "release"}}

AllDone == \A j \in Jobs : pc[j] = "done"

JobsWith(cls, res) == {j \in Jobs : tasks[j].cls = cls /\ result[j] = res}

JobsOf(cls) == {j \in Jobs : tasks[j].cls = cls}

\* C1: while simulate_visits runs with max_concurrent = k >= 1, at most k jobs
\* are inside the semaphore-guarded section, in every reachable state.
C1_ConcurrencyCeiling ==
    (script \in CrawlerScripts /\ max_concurrent >= 1)
        => Cardinality(InSection) <= max_concurrent

\* the ceiling is reached while another job waits for a slot
C1_Witness ==
    /\ script \in CrawlerScripts
    /\ max_concurrent >= 1
    /\ Cardinality(InSection) = max_concurrent
    /\ \E j \in Jobs : pc[j] = "pending"

\* C2: once all jobs of a run have completed, the recorded successes are the
\* jobs that succeeded, the recorded failures the jobs that exhausted their
\* attempts, and together they are the jobs scheduled.
C2_NoLostIncrement ==
    AllDone =>
        /\ script = "precise_crawler" =>
              /\ total_success(visit_stats) = Cardinality(JobsWith("normal", "ok"))
              /\ total_failed(visit_stats) = Cardinality(JobsWith("normal", "fail"))
              /\ total_success(visit_stats) + total_failed(visit_stats) = Len(tasks)
        /\ script = "crawler" =>
              /\ counters.success = Cardinality(JobsWith("normal", "ok"))
              /\ counters.failure = Cardinality(JobsWith("normal", "fail"))
              /\ counters.success + counters.failure = Len(tasks)
        /\ script \in VisitorScripts =>
              \A cls \in {tasks[j].cls : j \in Jobs} :
                  /\ stats[cls].success = Cardinality(JobsWith(cls, "ok"))
                  /\ stats[cls].failure = Cardinality(JobsWith(cls, "fail"))
                  /\ stats[cls].success + stats[cls].failure = Cardinality(JobsOf(cls))

\* a finished run in which two jobs of one url succeeded and were both counted
C2_Witness ==
    /\ AllDone
    /\ script = "precise_crawler"
    /\ \E i, j \in Jobs : i # j /\ tasks[i].url = tasks[j].url
                          /\ result[i] = "ok" /\ result[j] = "ok"

\* the jobs of the normal class on the task list
NormalTasks == SelectSeq(tasks, LAMBDA t : t.cls = "normal")

\* the url list an allocation was made for has at least one url
Allocated == mainpc = "allocated" /\ Len(article_urls) >= 1

\* C3: for n >= 1 targets and a budget V >= 0 the per-target job counts sum to
\* exactly V, and the largest and the smallest count differ by at most 1.
C3_QuotaConservation ==
    Allocated =>
        /\ Len(NormalTasks) = total_visits
        /\ \A u, v \in Range(article_urls) :
               CountFor(NormalTasks, u) - CountFor(NormalTasks, v) <= 1

\* a budget that does not divide evenly among several targets
C3_Witness ==
    /\ Allocated
    /\ Len(article_urls) >= 2
    /\ total_visits > Len(article_urls)
    /\ total_visits % Len(article_urls) # 0

\* C4: the targets at input positions 0 .. (V mod n) - 1 receive (V div n) + 1
\* jobs and every later target V div n jobs; 3 targets and V = 10 give 4, 3, 3.
C4_RemainderToFront ==
    Allocated =>
        /\ \A i \in 1..Len(article_urls) :
               CountFor(NormalTasks, article_urls[i]) =
                   (total_visits \div Len(article_urls))
                   + (IF i <= total_visits % Len(article_urls) THEN 1 ELSE 0)
        /\ (Len(article_urls) = 3 /\ total_visits = 10) =>
               [i \in 1..3 |-> CountFor(NormalTasks, article_urls[i])] = <<4, 3, 3>>

\* 3 targets and a budget of 10
C4_Witness ==
    /\ Allocated
    /\ Len(article_urls) = 3
    /\ total_visits = 10
    /\ CountFor(NormalTasks, article_urls[1]) = 4

\* C5 (as claimed): a job that fails has issued exactly maxRetries + 1 request
\* attempts, maxRetries being CONFIG['max_retries'] in the visitors and the
\* max_retries parameter of fetch_url_with_retry in the crawlers.
C5_RetryExhaustion ==
    \A j \in Jobs : result[j] = "fail" => requests[j] = MaxRetriesOf(script) + 1

\* simulate_visits has returned (or raised)
SimulateOver == mainpc \in {"generate_report", "close_session", "done", "returned", "raised"}

\* C6: after simulate_visits of precise_crawler completes, for every target url
\* the recorded success count plus failed count is the quota allocated to it,
\* and every job of the shuffled list has run to its outcome.
C6_EveryJobOnce ==
    (script = "precise_crawler" /\ SimulateOver) =>
        /\ \A i \in 1..Len(article_urls) :
               StatsOf(visit_stats, article_urls[i]).success
               + StatsOf(visit_stats, article_urls[i]).failed
                   = VisitsFor(i - 1, total_visits, Len(article_urls))
        /\ \A j \in Jobs : pc[j] = "done" /\ result[j] # "none" /\ requests[j] >= 1
        /\ Len(tasks) = (IF article_urls = <<>> THEN 0 ELSE total_visits)

\* a completed run whose shuffled job list is not in allocation order
C6_Witness ==
    /\ script = "precise_crawler"
    /\ SimulateOver
    /\ Len(tasks) >= 2
    /\ tasks # BuildTasks(article_urls, total_visits, "normal")

\* C7 (as claimed): with an empty target list the scheduling step creates no
\* job, issues no request and raises no exception, whatever the budget.
C7_ZeroTargetSafety ==
    article_urls = <<>> => (error = "none" /\ tasks = <<>>)

\* C8 (as claimed): report generation never divides by zero.
C8_ReportNeverDividesByZero == error # "ZeroDivisionError"

\* C9 (as claimed): a campaign with at least one target ends with a report
\* produced and not in an error state, whatever the outcomes of its jobs.
C9_ReportAlwaysProduced ==
    (entry = "main" /\ mainpc \in {"done", "crashed"} /\ article_urls # <<>>)
        => (report = "produced" /\ error = "none")

\* main() / execute() is past target discovery
PastDiscovery ==
    entry = "main" /\ mainpc \notin {"init_session", "get_article_urls", "get_url_lists"}

DefaultUrlsOf(s) == IF s \in CrawlerScripts THEN CrawlerDefaultUrls ELSE VisitorDefaultUrls

\* C10 (as claimed): when the required and the discovered target lists are both
\* empty no visit job is started and no ordinary report is produced.
C10_FatalWhenNoTargets ==
    (PastDiscovery /\ discovered = <<>> /\ required_urls = <<>>)
        => (tasks = <<>> /\ report # "produced")

\* C10 (amended): when discovery finds no target the script's default urls are
\* substituted, so past discovery the target list is never empty, the jobs
\* visit the substituted list, and main's "no articles" exit is never taken.
C10_DefaultsSubstituted ==
    PastDiscovery =>
        /\ LET used == IF discovered = <<>> THEN DefaultUrlsOf(script) ELSE discovered
           IN  article_urls \in (IF script = "crawler" THEN Shuffles(used) ELSE {used})
        /\ article_urls # <<>>
        /\ error # "NoArticles"
        /\ \A j \in Jobs : tasks[j].cls = "normal" => tasks[j].url \in Range(article_urls)

\* nothing was discovered and nothing is required, and a default url was requested
C10_Witness ==
    /\ PastDiscovery
    /\ discovered = <<>>
    /\ required_urls = <<>>
    /\ \E j \in Jobs : requests[j] >= 1 /\ tasks[j].url \in Range(DefaultUrlsOf(script))

\* the executor runs: main() / execute() waits in asyncio.gather
Executing == mainpc \in {"gather", "required_gather", "normal_gather"}

\* the executor (simulate_visits, a phase of the visitors) has returned
ExecutorReturned ==
    mainpc \in {"generate_report", "close_session", "done", "returned",
                "run_normal_visits", "send_report", "crashed"}

\* the failure count the script keeps for class cls
FailuresRecorded(cls) ==
    IF script = "precise_crawler" THEN total_failed(visit_stats)
    ELSE IF script = "crawler" THEN counters.failure
    ELSE stats[cls].failure

\* C11: a failing visit (non-success status or exception, on every attempt) is
\* absorbed by the requester: no exception is raised while the jobs run, and
\* when the executor has returned every job of the run has an outcome and the
\* failed jobs are exactly the failures counted.
C11_FailureAbsorbed ==
    /\ Executing => error = "none"
    /\ tasks # <<>> => error \in {"none", "ZeroDivisionError"}
    /\ ExecutorReturned =>
          /\ \A j \in Jobs : pc[j] = "done" /\ result[j] \in {"ok", "fail"}
          /\ \A cls \in {tasks[j].cls : j \in Jobs} :
                 FailuresRecorded(cls) = Cardinality(JobsWith(cls, "fail"))

\* the executor has returned without error from a run in which one job failed
\* and another succeeded
C11_Witness ==
    /\ ExecutorReturned
    /\ error = "none"
    /\ \E i, j \in Jobs : result[i] = "fail" /\ result[j] = "ok"

\* C12 (as claimed): once the overall deadline of the campaign has expired no
\* new request attempt is started, neither the first attempt of a waiting job
\* nor a retry of a running one.
C12_NoAttemptAfterDeadline ==
    [][expired => (tasks' = tasks => \A j \in Jobs : requests'[j] = requests[j])]_vars

\* the outcomes recorded so far for class cls (the jobs of a crawler are all
\* of class normal)
Recorded(cls) ==
    IF script \in VisitorScripts THEN stats[cls].success + stats[cls].failure
    ELSE IF cls # "normal" THEN 0
    ELSE IF script = "precise_crawler" THEN total_success(visit_stats) + total_failed(visit_stats)
    ELSE counters.success + counters.failure

\* the jobs of class cls scheduled so far: the task list of the crawlers, the
\* task lists the phases of the visitors have built
Scheduled(cls) ==
    IF script \in CrawlerScripts
    THEN (IF cls = "normal" THEN Len(tasks) ELSE 0)
    ELSE IF cls = "required"
    THEN (IF mainpc \in {"get_url_lists", "run_required_visits"} THEN 0
          ELSE Len(RequiredTasks(required_urls, RequiredVisitsPerUrl(script, required_arg))))
    ELSE (IF mainpc \in {"normal_gather", "send_report", "done", "crashed"}
          THEN Len(BuildTasks(article_urls, total_visits, "normal"))
          ELSE 0)

\* the outcomes recorded so far for url u in class cls (the visitors keep the
\* successes per url only)
RecordedFor(cls, u) ==
    IF script = "precise_crawler"
    THEN StatsOf(visit_stats, u).success + StatsOf(visit_stats, u).failed
    ELSE IF script \in VisitorScripts /\ u \in DOMAIN stats[cls].urls
    THEN stats[cls].urls[u]
    ELSE 0

\* the urls the script keeps a count for in class cls
RecordedUrls(cls) ==
    IF script = "precise_crawler" THEN (IF cls = "normal" THEN DOMAIN visit_stats ELSE {})
    ELSE IF script \in VisitorScripts THEN DOMAIN stats[cls].urls
    ELSE {}

\* the quota of the url at position i of the list of class cls
QuotaAt(cls, i) ==
    IF cls = "required" THEN RequiredVisitsPerUrl(script, required_arg)
    ELSE VisitsFor(i - 1, total_visits, Len(article_urls))

UrlsOf(cls) == IF cls = "required" THEN required_urls ELSE article_urls

\* C13: in every reachable state, also in the middle of a run, the recorded
\* outcomes are at most the jobs scheduled, in total and per class, and the
\* outcomes recorded for a target are at most its quota.
C13_RecordedAtMostScheduled ==
    /\ \A cls \in {"required", "normal"} :
          /\ Recorded(cls) <= Scheduled(cls)
          /\ \A u \in RecordedUrls(cls) :
                 \E i \in 1..Len(UrlsOf(cls)) :
                     UrlsOf(cls)[i] = u /\ RecordedFor(cls, u) <= QuotaAt(cls, i)
    /\ script \in VisitorScripts =>
          Recorded("required") + Recorded("normal") <= Scheduled("required") + Scheduled("normal")

\* the middle of a run: one outcome is recorded while another job of the same
\* url is in a request
C13_Witness ==
    /\ Executing
    /\ \E i, j \in Jobs :
          /\ pc[i] = "done"
          /\ pc[j] = "request"
          /\ tasks[i] = tasks[j]
          /\ Recorded(tasks[i].cls) >= 1
          /\ Recorded(tasks[i].cls) < Scheduled(tasks[i].cls)

\* the jobs of the required class on the task list
RequiredJobs == SelectSeq(tasks, LAMBDA t : t.cls = "required")

\* C14: each of the m required targets receives exactly R jobs, R being the
\* configured required visits per target, so the required phase schedules m * R
\* jobs whatever the normal budget is; the normal budget V goes to the normal
\* targets only; 2 required targets with R = 3 and 1 normal target with V = 10
\* make 6 + 10 = 16 jobs.
C14_RequiredIndependentOfBudget ==
    LET R == RequiredVisitsPerUrl(script, required_arg)
        m == Len(required_urls)
    IN  /\ (script \in VisitorScripts /\ mainpc = "required_allocated") =>
              /\ Len(tasks) = m * R
              /\ tasks = RequiredJobs
              /\ \A u \in Range(required_urls) : CountFor(tasks, u) = R
              /\ \A j \in Jobs : tasks[j].url \in Range(required_urls)
        /\ (script \in VisitorScripts /\ mainpc = "allocated" /\ article_urls # <<>>) =>
              /\ Len(NormalTasks) = total_visits
              /\ \A j \in 1..Len(NormalTasks) : NormalTasks[j].url \in Range(article_urls)
              /\ total_visits > 0 => tasks = NormalTasks
              /\ (m = 2 /\ R = 3 /\ Len(article_urls) = 1 /\ total_visits = 10) =>
                     /\ m * R + Len(NormalTasks) = 16
                     /\ CountFor(NormalTasks, article_urls[1]) = 10

\* 2 required targets with the default R = 3 have their 6 jobs, and the normal
\* budget is not 6
C14_Witness ==
    /\ script \in VisitorScripts
    /\ mainpc = "required_allocated"
    /\ required_arg = None
    /\ Len(required_urls) = 2
    /\ Len(tasks) = 6
    /\ total_visits = 10

\* C15: where simulate_visits or a phase of the visitors has returned, no job
\* is pending, in a sleep, in a request or still inside the semaphore section,
\* every job has its outcome and every outcome is recorded, and the slots of
\* the semaphore are all back.
C15_ReturnsAfterAllJobs ==
    ExecutorReturned =>
        /\ \A j \in Jobs :
               /\ pc[j] \notin {"pending", "delay", "request", "penalty", "backoff",
                                "record", "release"}
               /\ result[j] # "none"
        /\ \A cls \in {tasks[j].cls : j \in Jobs} :
               Recorded(cls) = Cardinality(JobsOf(cls))
        /\ (script \in CrawlerScripts /\ tasks # <<>>) => sem = max_concurrent

\* the executor has returned from a run in which one job ended at its first
\* request and another needed all its attempts
C15_Witness ==
    /\ ExecutorReturned
    /\ \E i, j \in Jobs : requests[i] = 1 /\ requests[j] >= ConfigMaxRetries + 1

\* the jobs of the running phase that have been started and have not finished
Started == {j \in Jobs : pc[j] # "done"}

\* C16 (as claimed): in the visitors the jobs started and not yet finished are
\* at most CONFIG['conn_limit'], in every reachable state of a phase.
C16_DispatchWithinLimit ==
    script \in VisitorScripts => Cardinality(Started) <= ConnLimitOf(script)

\* the lifecycle state of a position of main() / execute():
\* 0 Idle (targets are gathered), 1 Allocating (the task list is built),
\* 2 Executing (the jobs run), 3 Aggregating (the report), 4 Done
Lifecycle(p) ==
    IF p \in {"init_session", "get_article_urls", "check", "get_url_lists"} THEN 0
    ELSE IF p \in {"simulate_visits", "run_required_visits", "run_normal_visits"} THEN 1
    ELSE IF p \in {"gather", "required_gather", "normal_gather"} THEN 2
    ELSE IF p \in {"generate_report", "send_report"} THEN 3
    ELSE 4

\* the order of the positions in the text of main() / execute()
PositionRank(p) ==
    IF p = "init_session" THEN 0
    ELSE IF p \in {"get_article_urls", "get_url_lists"} THEN 1
    ELSE IF p = "check" THEN 2
    ELSE IF p \in {"simulate_visits", "run_required_visits"} THEN 3
    ELSE IF p \in {"gather", "required_gather"} THEN 4
    ELSE IF p = "run_normal_visits" THEN 5
    ELSE IF p = "normal_gather" THEN 6
    ELSE IF p \in {"generate_report", "send_report"} THEN 7
    ELSE IF p = "close_session" THEN 8
    ELSE 9

\* C17 (as claimed): the lifecycle Idle, Allocating, Executing, Aggregating,
\* Done only moves forward; no step returns to an earlier state (so Executing,
\* once left, is not entered again).
C17_LifecycleForwardOnly ==
    [][Lifecycle(mainpc') >= Lifecycle(mainpc)]_vars

\* C17 (amended): main() / execute() only moves forward through its positions
\* and enters each at most once; a crawler goes through Idle, Allocating,
\* Executing, Aggregating, Done in that order, a visitor allocates and executes
\* twice, the required phase and then the normal phase, before it aggregates.
C17_PositionsForwardOnly ==
    [][/\ mainpc' # mainpc => PositionRank(mainpc') > PositionRank(mainpc)
       /\ script \in CrawlerScripts => Lifecycle(mainpc') >= Lifecycle(mainpc)
       /\ (script \in VisitorScripts /\ Lifecycle(mainpc') < Lifecycle(mainpc))
             => (mainpc = "required_gather" /\ mainpc' = "run_normal_visits")]_vars

\* a visitor executes its normal phase after its required phase has run jobs
C17_Witness ==
    /\ script \in VisitorScripts
    /\ mainpc = "normal_gather"
    /\ Recorded("required") >= 1
    /\ \E j \in Jobs : pc[j] = "request"

\* C18 (as claimed): when there are targets and the budget allocates no job,
\* the campaign skips execution and ends as a success, with empty statistics
\* and a report and without an error.
C18_EmptyCampaignSucceeds ==
    (entry = "main" /\ mainpc \in {"done", "crashed"} /\ article_urls # <<>> /\ tasks = <<>>)
        => /\ report = "produced"
           /\ error = "none"
           /\ Recorded("required") + Recorded("normal") = 0

\* the sleeps of fetch_url_with_retry and the requests issued by then
PenaltyAndBackoff ==
    script \in CrawlerScripts =>
        \A j \in Jobs :
            /\ pc[j] = "penalty" =>
                  /\ wait_time[j] = (attempt[j] + 1) * 5
                  /\ wait_time[j] > 3 * (attempt[j] + 1)
                  /\ requests[j] = attempt[j] + 1
                  /\ requests[j] <= DefaultMaxRetries
            /\ pc[j] = "backoff" =>
                  /\ wait_time[j] >= attempt[j] + 1
                  /\ wait_time[j] <= 3 * (attempt[j] + 1)
                  /\ wait_time[j] < (attempt[j] + 1) * 5
            /\ result[j] = "fail" => requests[j] = DefaultMaxRetries

\* what a job does when its rate-limit sleep is over
AfterPenalty ==
    script \in CrawlerScripts =>
        \A j \in Jobs :
            (tasks' = tasks /\ pc[j] = "penalty" /\ pc'[j] # "penalty") =>
                \/ /\ attempt[j] < DefaultMaxRetries - 1
                   /\ pc'[j] = "backoff"
                   /\ requests'[j] = requests[j]
                \/ /\ attempt[j] = DefaultMaxRetries - 1
                   /\ pc'[j] = "record"
                   /\ result'[j] = "fail"
                   /\ requests'[j] = DefaultMaxRetries

\* C19: a request answered 429 at attempt index a is followed by a sleep of
\* (a + 1) * 5 seconds, which grows with a and is longer than any backoff of
\* that attempt (at most 3 * (a + 1) seconds); after it the job retries if an
\* attempt is left and fails if none is: the rate-limited attempt is one of the
\* max_retries attempts, and every failing job has issued max_retries requests.
C19_RateLimitPenalty == []PenaltyAndBackoff /\ [][AfterPenalty]_vars

\* a job that is rate-limited at its last attempt sleeps the longest penalty
C19_Witness ==
    /\ script \in CrawlerScripts
    /\ \E j \in Jobs : /\ pc[j] = "penalty"
                       /\ attempt[j] = DefaultMaxRetries - 1
                       /\ wait_time[j] = 15

\* a step in which job j issues a request
IssuesRequest(j) == tasks' = tasks /\ requests'[j] # requests[j]

\* the job is in a random sleep: the delay before its first attempt (in the
\* visitors before every attempt), or the backoff before a retry
InJitterSleep(j) ==
    IF script \in VisitorScripts THEN pc[j] = "delay" ELSE pc[j] \in {"delay", "backoff"}

\* a job that has issued no request is waiting for a slot or in its first delay
NoRequestBeforeDelay ==
    \A j \in Jobs :
        /\ requests[j] = 0 => pc[j] \in {"pending", "delay"}
        /\ pc[j] = "request" => requests[j] = attempt[j] + 1

\* a request is issued by the step that ends a sleep of the job, one at a time
RequestEndsSleep ==
    \A j \in Jobs :
        IssuesRequest(j) =>
            /\ InJitterSleep(j)
            /\ pc'[j] = "request"
            /\ requests'[j] = requests[j] + 1

\* C20: every request attempt of a job, the first included, is issued by the
\* step that ends a random sleep of that job, so no two requests of a job are
\* issued back to back and no first request without the delay before it.
C20_SleepBeforeEveryAttempt == []NoRequestBeforeDelay /\ [][RequestEndsSleep]_vars

\* a retry is in flight: the job has slept between its requests
C20_Witness ==
    \E j \in Jobs : pc[j] = "request" /\ requests[j] >= 2 /\ attempt[j] >= 1

(***************************************************************************)
(* C21: what counts as a success of a visit.                               *)
(***************************************************************************)
\* C21: every response whose status lies in the success range (2xx) ends the
\* visit as a success: no such status ever becomes the error of an attempt
\* that is retried or reported as failed.
C21_SuccessRangeIsSuccess ==
    \A j \in Jobs : \A status \in Statuses :
        status \div 100 = 2 => last_error[j] # ErrorOf(status)

(***************************************************************************)
(* C22: the error fetch_url_with_retry returns.                            *)
(***************************************************************************)
\* the errors an attempt can leave behind
AttemptErrors == {ErrorOf(status) : status \in Statuses \ {200}}

\* what the call holds and returns: nothing on success, the rate-limit status
\* during a rate-limit sleep, an error of some attempt once it gave up after
\* at least one attempt
ReturnedError ==
    \A j \in Jobs :
        /\ result[j] = "ok" => last_error[j] = ""
        /\ pc[j] = "penalty" => last_error[j] = ErrorOf(429)
        /\ (result[j] = "fail" /\ requests[j] >= 1) => last_error[j] \in AttemptErrors
        /\ requests[j] = 0 => last_error[j] = ""

\* the error is set by the step in which a response or exception arrives, to
\* the error of that attempt, and by no other step
ErrorFromThisAttempt ==
    \A j \in Jobs :
        /\ pc[j] # "request" => last_error'[j] = last_error[j]
        /\ (pc[j] = "request" /\ pc'[j] = "penalty") => last_error'[j] = ErrorOf(429)
        /\ (pc[j] = "request" /\ result'[j] = "ok") => last_error'[j] = ""
        /\ (pc[j] = "request" /\ pc'[j] # "penalty" /\ result'[j] # "ok")
              => last_error'[j] \in AttemptErrors \ {ErrorOf(429)}

\* C22: when fetch_url_with_retry gives up, the error it returns is the one
\* of the last attempt made (the status of the last response or the last
\* exception), never one of an earlier attempt; on success it is empty.
C22_LastErrorReturned == []ReturnedError /\ [][ErrorFromThisAttempt]_vars

\* the call gave up after a retry whose last attempt was rate-limited
C22_Witness ==
    \E j \in Jobs :
        /\ pc[j] = "record" /\ result[j] = "fail"
        /\ requests[j] >= 2 /\ last_error[j] = ErrorOf(429)

(***************************************************************************)
(* C23: the outcome is recorded while the slot is still held.              *)
(***************************************************************************)
\* the jobs that have left the statistics update of visit_with_semaphore
PastRecord == {j \in Jobs : pc[j] \in {"release", "done"}}

\* the jobs whose slot went back to the semaphore
SlotReleased == {j \in Jobs : pc[j] = "done"}

\* C23: for every job run under the semaphore the statistics are updated
\* before its slot is released: the outcomes recorded are those of the jobs
\* past the update, every job whose slot went back is among them, and the
\* slots out are those of the jobs inside the section.
C23_RecordedBeforeRelease ==
    (script \in CrawlerScripts /\ Jobs # {}) =>
        /\ Recorded("normal") = Cardinality(PastRecord)
        /\ Cardinality(SlotReleased) <= Recorded("normal")
        /\ sem + Cardinality(InSection) = max_concurrent

\* one job has recorded and still holds its slot, another has its outcome
\* and has not recorded it yet
C23_Witness ==
    /\ script \in CrawlerScripts
    /\ \E j, k \in Jobs : pc[j] = "release" /\ pc[k] = "record"
    /\ Recorded("normal") = 1

(***************************************************************************)
(* C24: the attempts of one job are sequential.                            *)
(***************************************************************************)
\* the requests of job j whose response or exception has not arrived yet
InFlight(j) == IF pc[j] = "request" THEN 1 ELSE 0

\* every request but the one in flight belongs to an attempt that is over:
\* the requests issued are those of the attempts begun, the current one
\* included once its request is out
OneRequestPerAttempt ==
    \A j \in Jobs :
        /\ pc[j] = "request" => requests[j] = attempt[j] + 1
        /\ requests[j] \in {attempt[j], attempt[j] + 1}
        /\ InFlight(j) <= requests[j]

\* a step issues at most one request of a job, and only while none of its
\* requests is in flight; the loop variable moves on by one, after the
\* outcome of the attempt is known
AttemptsInOrder ==
    \A j \in Jobs :
        tasks' = tasks =>
            /\ requests'[j] \in {requests[j], requests[j] + 1}
            /\ attempt'[j] \in {attempt[j], attempt[j] + 1}
            /\ requests'[j] = requests[j] + 1 => (InFlight(j) = 0 /\ pc'[j] = "request")
            /\ attempt'[j] = attempt[j] + 1 => InFlight(j) = 0

\* C24: within one job the attempts are strictly sequential: attempt i + 1
\* starts only after the outcome of attempt i is known, so a job never has
\* two of its requests in flight, while requests of different jobs overlap.
C24_AttemptsSequential == []OneRequestPerAttempt /\ [][AttemptsInOrder]_vars

\* a retry of one job is in flight together with a request of another job
C24_Witness ==
    \E j, k \in Jobs :
        /\ j # k
        /\ pc[j] = "request" /\ attempt[j] >= 1
        /\ pc[k] = "request"

(***************************************************************************)
(* C25: who writes the statistics.                                         *)
(***************************************************************************)
\* the shared statistics of the four scripts
Statistics == <<visit_stats, counters, stats>>

\* job j is inside its retrying requester: fetch_url_with_retry of a crawler
\* (between its first request and its return), _visit_url / _visit of a visitor
InRequester(j) ==
    IF script \in VisitorScripts THEN pc[j] \in {"delay", "request", "backoff"}
    ELSE pc[j] \in {"request", "penalty", "backoff"}

\* a step taken by job j
StepOf(j) == tasks' = tasks /\ pc'[j] # pc[j]

\* no step of a requester changes the statistics
RequesterWritesNothing ==
    \A j \in Jobs : (StepOf(j) /\ InRequester(j)) => Statistics' = Statistics

\* C25 as stated: the retrying requester changes no success/failure counter
\* itself; it only returns the outcome, which its caller records.
C25_RequesterLeavesStatistics == [][RequesterWritesNothing]_vars

\* the statistics change in one step per job, by one outcome: in a crawler the
\* step of visit_with_semaphore after the requester has returned, in a visitor
\* the step in which the requester itself returns
OutcomeWrittenAtReturn ==
    \A j \in Jobs :
        StepOf(j) =>
            IF script \in CrawlerScripts
            THEN IF pc[j] = "record"
                 THEN Recorded("normal")' = Recorded("normal") + 1
                 ELSE Statistics' = Statistics
            ELSE IF pc'[j] = "done"
                 THEN /\ Recorded(tasks[j].cls)' = Recorded(tasks[j].cls) + 1
                      /\ InRequester(j)
                 ELSE Statistics' = Statistics

\* C25 amended: the attempts, sleeps and retries of a visit change no
\* counter; fetch_url_with_retry of the crawlers only returns the outcome and
\* visit_with_semaphore records it, while _visit_url / _visit of the visitors
\* record the outcome themselves, once, in the step in which they return.
C25_StatisticsAtReturnOnly == [][OutcomeWrittenAtReturn]_vars

\* a visitor's requester has returned success after a retry and counted it
C25_Witness ==
    /\ script \in VisitorScripts
    /\ \E j \in Jobs :
          /\ pc[j] = "done" /\ result[j] = "ok" /\ attempt[j] >= 1
          /\ stats[tasks[j].cls].success >= 1

(***************************************************************************)
(* C26: a campaign of the crawlers comes to an end.                        *)
(***************************************************************************)
\* no job issues more requests than its attempt loop has passes
AttemptsBounded == \A j \in Jobs : requests[j] <= CrawlerAttempts(max_retries)

\* simulate_visits is running with a semaphore that has slots
Running ==
    /\ script \in CrawlerScripts
    /\ mainpc \in {"simulate_visits", "gather"}
    /\ max_concurrent >= 1

\* once simulate_visits has returned, every job has had a slot and has given
\* it back
NoJobLeftBehind ==
    (script \in CrawlerScripts /\ mainpc \in {"generate_report", "returned"} /\ Jobs # {}) =>
        /\ \A j \in Jobs : pc[j] = "done" /\ result[j] # "none"
        /\ sem = max_concurrent

\* C26: under fair scheduling and with max_concurrent >= 1 a run of
\* simulate_visits over a finite job list completes whatever the requests
\* end in: each job makes a bounded number of attempts, and simulate_visits
\* eventually returns, which it does only after every waiting job has got a
\* slot and every slot has been given back.
C26_CampaignCompletes ==
    /\ []AttemptsBounded
    /\ []NoJobLeftBehind
    /\ Running ~> SimulateOver

\* simulate_visits has returned after a job had to wait for a slot and made
\* all its attempts in vain
C26_Witness ==
    /\ script \in CrawlerScripts
    /\ SimulateOver
    /\ Len(tasks) > max_concurrent
    /\ max_concurrent >= 1
    /\ \E j \in Jobs : result[j] = "fail" /\ requests[j] = DefaultMaxRetries

(***************************************************************************)
(* C27: sleeping jobs and waiting jobs.                                    *)
(***************************************************************************)
\* the jobs whose request is on the wire
RequestsInFlight == {j \in Jobs : pc[j] = "request"}

\* the next step of a job that holds a slot
SectionStep(j) ==
    \/ PreDelayDone(j)
    \/ \E status \in Statuses : CampaignResponse(j, status)
    \/ PenaltyDone(j)
    \/ BackoffDone(j)
    \/ Record(j)
    \/ Release(j)

\* C27 as stated: a suspended task does not block the others: whenever fewer
\* than max_concurrent requests are in flight, a waiting job is able to start,
\* even while other jobs are sleeping.
C27_StartsBelowRequestLimit ==
    (script \in CrawlerScripts /\ mainpc = "gather") =>
        \A j \in Jobs :
            (pc[j] = "pending" /\ Cardinality(RequestsInFlight) < max_concurrent)
                => ENABLED Acquire(j)

\* C27 amended: a suspended task does not block the others: every job that
\* holds a slot can take its next step whatever the others do, and a waiting
\* job is able to start exactly when fewer than max_concurrent jobs hold a
\* slot; a job keeps its slot through its delay, its request and its sleeps.
C27_StartsBelowJobLimit ==
    (script \in CrawlerScripts /\ mainpc = "gather") =>
        /\ \A j \in InSection : ENABLED SectionStep(j)
        /\ \A j \in Jobs :
              pc[j] = "pending" =>
                  (ENABLED Acquire(j) <=> Cardinality(InSection) < max_concurrent)

\* a waiting job is able to start while another job sleeps in its backoff and
\* no request is in flight
C27_Witness ==
    /\ script \in CrawlerScripts
    /\ mainpc = "gather"
    /\ RequestsInFlight = {}
    /\ \E j, k \in Jobs : pc[j] = "pending" /\ ENABLED Acquire(j) /\ pc[k] = "backoff"

(***************************************************************************)
(* C28: the target list during a campaign.                                 *)
(***************************************************************************)
\* a step of simulate_visits, or of one of its visit tasks, leaves
\* self.article_urls as it is
TargetsKept ==
    (script \in CrawlerScripts /\ mainpc \in {"simulate_visits", "gather"})
        => article_urls' = article_urls

\* C28: a campaign run leaves the target list unchanged: simulate_visits and
\* every visit task keep article_urls, its elements and their order, as it
\* was when the run started; only the job list derived from it is shuffled.
C28_TargetsUnchanged == [][TargetsKept]_vars

\* a run is over whose job list was shuffled out of the order of the targets
C28_Witness ==
    /\ script = "precise_crawler"
    /\ SimulateOver
    /\ AllDone
    /\ Len(article_urls) >= 2
    /\ tasks # BuildTasks(article_urls, total_visits, "normal")

(***************************************************************************)
(* C29: _normalize_url is idempotent.                                      *)
(***************************************************************************)
\* C29: for every link u, _normalize_url(_normalize_url(u)) is
\* _normalize_url(u): relative paths with and without a leading slash,
\* absolute urls, and links with a '#' fragment; the result is absolute and
\* has no fragment.
C29_NormalizeIdempotent ==
    (entry = "_normalize_url" /\ Len(canon) >= 2) =>
        /\ StartsWith(canon[2], <<"h", "t", "t", "p">>)
        /\ \A i \in 1..Len(canon[2]) : canon[2][i] # "#"
        /\ Len(canon) = 3 => canon[3] = canon[2]

\* a relative link without a leading slash and with a fragment was
\* normalized twice
C29_Witness ==
    /\ entry = "_normalize_url"
    /\ Len(canon) = 3
    /\ canon[1] = <<"a", "#", "a">>
    /\ canon[2] = BlogUrl \o <<"/", "a">>

(***************************************************************************)
(* C30: one outcome per job.                                               *)
(***************************************************************************)
\* the successes counted so far, over all urls and classes
SuccessCount ==
    IF script = "precise_crawler" THEN total_success(visit_stats)
    ELSE IF script = "crawler" THEN counters.success
    ELSE stats["required"].success + stats["normal"].success

\* the failures counted so far, over all urls and classes
FailureCount ==
    IF script = "precise_crawler" THEN total_failed(visit_stats)
    ELSE IF script = "crawler" THEN counters.failure
    ELSE stats["required"].failure + stats["normal"].failure

\* the step in which the outcome of job j is written to the statistics
WritesOutcome(j) ==
    IF script \in CrawlerScripts THEN pc[j] = "record" ELSE pc'[j] = "done"

\* the attempts a job has made when it gives up
AttemptsOf(s) == IF s \in CrawlerScripts THEN CrawlerAttempts(max_retries) ELSE max_retries + 1

\* a job with an outcome has made at least one and at most all its attempts,
\* and all of them if it failed
OutcomeAfterAttempts ==
    \A j \in Jobs :
        /\ result[j] = "ok" => (requests[j] >= 1 /\ requests[j] <= AttemptsOf(script))
        /\ result[j] = "fail" => requests[j] = AttemptsOf(script)

\* a job with an outcome issues no further request and keeps the outcome; the
\* step that writes it adds one to the counter of that outcome and nothing to
\* the other, and no other step of the job changes either counter
OneOutcomeWritten ==
    \A j \in Jobs :
        StepOf(j) =>
            /\ result[j] # "none" =>
                  /\ requests'[j] = requests[j]
                  /\ attempt'[j] = attempt[j]
                  /\ result'[j] = result[j]
            /\ IF WritesOutcome(j)
               THEN /\ result'[j] \in {"ok", "fail"}
                    /\ SuccessCount' = SuccessCount + (IF result'[j] = "ok" THEN 1 ELSE 0)
                    /\ FailureCount' = FailureCount + (IF result'[j] = "fail" THEN 1 ELSE 0)
               ELSE /\ SuccessCount' = SuccessCount
                    /\ FailureCount' = FailureCount

\* C30: each job records exactly one outcome: after an attempt has succeeded
\* no further attempt of the job is issued and the job adds one to the
\* success counter, once, and nothing to the failure counter; a job that has
\* used up its attempts adds one to the failure counter, once, and nothing to
\* the success counter.
C30_OneOutcomePerJob == []OutcomeAfterAttempts /\ [][OneOutcomeWritten]_vars

\* one job has succeeded on a retry and another has used up its attempts;
\* each is counted once
C30_Witness ==
    /\ AllDone
    /\ \E j, k \in Jobs :
          /\ result[j] = "ok" /\ requests[j] >= 2
          /\ result[k] = "fail"
    /\ SuccessCount = 1
    /\ FailureCount = 1

(***************************************************************************)
(* C31: the two phases of the visitors.                                    *)
(***************************************************************************)
\* the required jobs execute() has to run: required_visits_per_url for each
\* url of posts.txt
RequiredDue == Len(RequiredTasks(required_urls, RequiredVisitsPerUrl(script, required_arg)))

\* C31: in the visitors the two classes run as strictly ordered phases: while
\* the required phase runs there is no normal job, and whenever a normal job
\* exists (so before any normal attempt starts) every required job has
\* reached its outcome and been counted.
C31_RequiredBeforeNormal ==
    script \in VisitorScripts =>
        /\ mainpc = "required_gather" => \A j \in Jobs : tasks[j].cls = "required"
        /\ (\E j \in Jobs : tasks[j].cls = "normal") =>
              /\ mainpc \in {"normal_gather", "send_report", "done", "crashed"}
              /\ Recorded("required") = RequiredDue

\* a normal attempt is in flight after a required job has been counted
C31_Witness ==
    /\ script \in VisitorScripts
    /\ Recorded("required") >= 1
    /\ \E j \in Jobs : tasks[j].cls = "normal" /\ pc[j] = "request"

(***************************************************************************)
(* C32: the required_visits argument.                                      *)
(***************************************************************************)
\* the required jobs scheduled for url u
RequiredJobsFor(u) == Cardinality({j \in Jobs : tasks[j].cls = "required" /\ tasks[j].url = u})

\* C32: a required-visits count given explicitly is honoured by both visitors
\* for every value r >= 0, r = 0 included: the required phase schedules
\* exactly r jobs per required url, and CONFIG['req_per_url'] is used only
\* when no value is given.
C32_ExplicitRequiredHonoured ==
    (script \in VisitorScripts /\ mainpc = "required_allocated") =>
        \A u \in Range(required_urls) :
            RequiredJobsFor(u) = (IF required_arg.given THEN required_arg.value ELSE ReqPerUrl)

(***************************************************************************)
(* C33: a semaphore without slots.                                         *)
(***************************************************************************)
\* C33: with max_concurrent = 0 and at least one scheduled job
\* simulate_visits never completes: no job acquires the semaphore, no request
\* is issued, no outcome is recorded, and the run stays at its gather.
C33_ZeroSlotsBlock ==
    (script \in CrawlerScripts /\ max_concurrent = 0 /\ Jobs # {}) =>
        /\ mainpc = "gather"
        /\ \A j \in Jobs : pc[j] = "pending" /\ requests[j] = 0 /\ result[j] = "none"
        /\ Recorded("normal") = 0
        /\ report = "none" /\ error = "none"

\* the jobs of a run with max_concurrent = 0 wait and nothing can happen
C33_Witness ==
    /\ script \in CrawlerScripts
    /\ max_concurrent = 0
    /\ Len(tasks) >= 1
    /\ mainpc = "gather"
    /\ ~ENABLED NextCrawler

(***************************************************************************)
(* C34: the sleeps of fetch_url_with_retry.                                *)
(***************************************************************************)
\* no job sleeps after its last pass
NoSleepAfterLastAttempt ==
    \A j \in Jobs :
        pc[j] \in {"penalty", "backoff"} => attempt[j] < CrawlerAttempts(max_retries) - 1

\* a rate-limit sleep is not followed by a backoff sleep
OneWaitBetweenAttempts ==
    \A j \in Jobs :
        (tasks' = tasks /\ pc[j] = "penalty") => pc'[j] # "backoff"

\* C34: in fetch_url_with_retry no sleep follows the final attempt, whatever
\* it failed with (HTTP 429 included), and after a failed attempt that is not
\* the final one exactly one wait, the penalty or the backoff and not both,
\* precedes the next attempt.
C34_NoSleepAfterFinalAttempt ==
    []NoSleepAfterLastAttempt /\ [][OneWaitBetweenAttempts]_vars

(***************************************************************************)
(* C35: the first attempt of fetch_url_with_retry.                         *)
(***************************************************************************)
\* C35: fetch_url_with_retry issues at least one request for every value of
\* max_retries, max_retries <= 0 included: a failure is returned only after
\* an attempt has been made and carries a non-empty error.
C35_AtLeastOneAttempt ==
    \A j \in Jobs :
        /\ pc[j] # "call" => requests[j] >= 1
        /\ result[j] = "fail" => (requests[j] >= 1 /\ last_error[j] # "")

(***************************************************************************)
(* C36: the per-url counts of the visitors.                                *)
(***************************************************************************)
Classes == {"required", "normal"}

\* the sum of the counts in stats[cls]['urls']
UrlCountSum(cls) == Sum2(stats[cls].urls, DOMAIN stats[cls].urls)

\* the per-url counts add up to the successes of the class; a url is in the
\* map only with a count of at least one
UrlCountsMatch ==
    script \in VisitorScripts =>
        \A cls \in Classes :
            /\ UrlCountSum(cls) = stats[cls].success
            /\ \A u \in DOMAIN stats[cls].urls : stats[cls].urls[u] >= 1

\* a step that counts a failure changes the class total of failures only
FailureInTotalOnly ==
    script \in VisitorScripts =>
        \A cls \in Classes :
            stats'[cls].failure # stats[cls].failure =>
                /\ stats'[cls].failure = stats[cls].failure + 1
                /\ stats'[cls].urls = stats[cls].urls
                /\ stats'[cls].success = stats[cls].success

\* C36: in the visitors, in every reachable state and for each class, the
\* per-url counts of stats[class]['urls'] add up to stats[class]['success'];
\* failures are counted in the class total only, and a url is in the per-url
\* map only after at least one successful visit.
C36_UrlCountsSumToSuccess == []UrlCountsMatch /\ [][FailureInTotalOnly]_vars

\* a class has a success on one url and a failure, and the failure is in no
\* per-url count
C36_Witness ==
    /\ script \in VisitorScripts
    /\ \E cls \in Classes :
          /\ stats[cls].success = 1
          /\ stats[cls].failure = 1
          /\ Cardinality(DOMAIN stats[cls].urls) = 1

(***************************************************************************)
(* async_typecho_crawler.py: crawl_typecho_post and _simulate_visit.       *)
(***************************************************************************)
MaxVisitCount == 6

VisitCountFloor == 1

VisitCountCeiling == 5

Smaller(a, b) == IF a <= b THEN a ELSE b

Larger(a, b) == IF a >= b THEN a ELSE b

\* bug variant of VisitCount: no lower limit, a count of 0 starts no visit
VisitCountNoFloor(v) == Smaller(Larger(v, 0), VisitCountCeiling)

\* visit_count = min(max(int(visit_count), 1), 5)
VisitCount(v) == Smaller(Larger(v, VisitCountFloor), VisitCountCeiling)

\* response.raise_for_status(): raises for the statuses from 400 up; an
\* exception of session.get (status 0) is caught by the same handler
VisitFailed(status) == status = 0 \/ status >= 400

\* [html for html in html_contents if html is not None], as the numbers of the
\* visits whose html is kept, in the order of the gather
HtmlContents(res) ==
    SelectSeq([i \in 1..Len(res) |-> i], LAMBDA i : res[i] = "ok")

\* bug variant of HtmlParsed: the first html of the list is parsed
HtmlParsedFirst(h) == h[1]

\* html_contents[-1]
HtmlParsed(h) == h[Len(h)]

\* crawl_typecho_post called on a new AsyncTypechoCrawler
InitPost ==
    /\ script = "async_typecho_crawler"
    /\ entry = "crawl_typecho_post"
    /\ mainpc = "crawl_typecho_post"
    /\ total_visits \in (0 - 1)..MaxVisitCount
    /\ max_concurrent = 0
    /\ required_arg = None
    /\ max_retries = 0
    /\ canon = <<>>
    /\ InitObject

\* crawl_typecho_post up to the gather: the clamp, _create_session, one
\* _simulate_visit(url, i + 1) per i in range(visit_count)
CrawlTypechoPost ==
    /\ script = "async_typecho_crawler"
    /\ mainpc = "crawl_typecho_post"
    /\ session' = "open"
    /\ StartJobs([i \in 1..VisitCount(total_visits) |-> [url |-> 1, cls |-> "normal"]],
                 "delay", sem)
    /\ mainpc' = "gather"
    /\ UNCHANGED <<html_used, expired, canon, max_retries, script, entry, discovered, article_urls,
                   required_urls, total_visits, max_concurrent, required_arg, visit_stats,
                   counters, stats, report, error>>

\* _simulate_visit: the _random_delay is over, session.get is issued
SimulateVisitDelayDone(j) ==
    /\ script = "async_typecho_crawler"
    /\ pc[j] = "delay"
    /\ pc' = [pc EXCEPT ![j] = "request"]
    /\ requests' = [requests EXCEPT ![j] = @ + 1]
    /\ UNCHANGED <<html_used, expired, canon, max_retries, script, entry, mainpc, session, discovered,
                   article_urls, required_urls, total_visits, max_concurrent, required_arg,
                   tasks, wait_time, last_error, attempt, result, sem, visit_stats, counters,
                   stats, report, error>>

\* _simulate_visit: the response arrives; the text is returned, or None after
\* any exception
SimulateVisitResponse(j, status) ==
    /\ script = "async_typecho_crawler"
    /\ pc[j] = "request"
    /\ pc' = [pc EXCEPT ![j] = "done"]
    /\ result' = [result EXCEPT ![j] = IF VisitFailed(status) THEN "fail" ELSE "ok"]
    /\ UNCHANGED <<html_used, expired, canon, max_retries, script, entry, mainpc, session, discovered,
                   article_urls, required_urls, total_visits, max_concurrent, required_arg,
                   tasks, wait_time, last_error, attempt, requests, sem, visit_stats, counters,
                   stats, report, error>>

\* crawl_typecho_post after the gather: the Nones are dropped; with nothing
\* left the failure result is returned, else the last html is parsed and the
\* article returned, unless the parse or the write of typecho_output.html
\* raises and the handler returns the error result
PostGatherDone ==
    /\ script = "async_typecho_crawler"
    /\ mainpc = "gather"
    /\ GatherReturns(pc)
    /\ IF HtmlContents(result) = <<>>
       THEN /\ report' = "failed"
            /\ UNCHANGED <<html_used, error>>
       ELSE /\ html_used' = HtmlParsed(HtmlContents(result))
            /\ \E raised \in BOOLEAN :
                 IF raised
                 THEN report' = "error" /\ error' = "Exception"
                 ELSE report' = "article" /\ error' = error
    /\ mainpc' = "close_session"
    /\ UNCHANGED <<expired, canon, max_retries, script, entry, session, discovered, article_urls,
                   required_urls, total_visits, max_concurrent, required_arg, JobVars,
                   visit_stats, counters, stats>>

\* bug variant of ClosePostSession: the coroutine ends with the session as it is
ClosePostSessionSkipped ==
    /\ script = "async_typecho_crawler"
    /\ mainpc = "close_session"
    /\ mainpc' = "done"
    /\ UNCHANGED <<html_used, expired, canon, max_retries, script, entry, session, discovered,
                   article_urls, required_urls, total_visits, max_concurrent, required_arg,
                   JobVars, visit_stats, counters, stats, report, error>>

\* finally: await self._close_session()
ClosePostSession ==
    /\ script = "async_typecho_crawler"
    /\ mainpc = "close_session"
    /\ session' = (IF session = "open" THEN "closed" ELSE session)
    /\ mainpc' = "done"
    /\ UNCHANGED <<html_used, expired, canon, max_retries, script, entry, discovered, article_urls,
                   required_urls, total_visits, max_concurrent, required_arg, JobVars,
                   visit_stats, counters, stats, report, error>>

NextPost ==
    \/ CrawlTypechoPost
    \/ \E j \in Jobs : SimulateVisitDelayDone(j)
    \/ \E j \in Jobs : \E status \in Statuses : SimulateVisitResponse(j, status)
    \/ PostGatherDone
    \/ ClosePostSession

SpecPost == InitPost /\ [][NextPost]_vars

\* the programs that open a session and close it in a finally block: main of
\* the two crawlers and crawl_typecho_post
InitSessionOwner == InitCrawler \/ InitPost

NextSessionOwner == NextCrawler \/ NextPost

\* every step that can be taken is taken in the end: the event loop runs each
\* ready coroutine, every sleep ends and every request ends by its timeout
SpecSessionOwner ==
    InitSessionOwner /\ [][NextSessionOwner]_vars /\ WF_vars(NextSessionOwner)

\* the coroutine that opened the session has ended
MainEnded == mainpc = "done"

\* the run that never ends: a crawler whose semaphore was built with no slot
NoSlot == script \in CrawlerScripts /\ max_concurrent = 0

\* the session is not open any more when the coroutine has ended
ClosedAtExit == MainEnded => session = "closed"

\* the session, once closed, is never used or opened again
ClosedForGood == session = "closed" => (session' = "closed" /\ mainpc' = "done")

\* C37: when main of a crawler or crawl_typecho_post has ended, by the normal
\* end, the early return or an exception, the session it opened is closed; the
\* close is the last step, and an open session is closed in the end in every
\* run that is not stuck on a semaphore without slots
C37_SessionClosedOnExit ==
    /\ []ClosedAtExit
    /\ [][ClosedForGood]_vars
    /\ ((session = "open" /\ ~NoSlot) ~> session = "closed")

\* main has ended after generate_report raised, with the session closed
C37_Witness ==
    /\ entry = "main"
    /\ MainEnded
    /\ error = "ZeroDivisionError"
    /\ session = "closed"

\* crawl_typecho_post has started its visits
Launched == script = "async_typecho_crawler" /\ mainpc # "crawl_typecho_post"

\* crawl_typecho_post has chosen what it returns
Returned == script = "async_typecho_crawler" /\ mainpc \in {"close_session", "done"}

\* the number of visits that follows from the visit_count argument
LaunchedCount ==
    /\ Len(tasks) >= VisitCountFloor
    /\ Len(tasks) <= VisitCountCeiling
    /\ (total_visits \in VisitCountFloor..VisitCountCeiling => Len(tasks) = total_visits)
    /\ (total_visits < VisitCountFloor => Len(tasks) = VisitCountFloor)
    /\ (total_visits > VisitCountCeiling => Len(tasks) = VisitCountCeiling)

\* the visits that returned a page
Succeeded == {j \in Jobs : result[j] = "ok"}

\* the failure result is returned exactly when no visit returned a page
FailureIffAllFailed == report = "failed" <=> Succeeded = {}

\* the page that is parsed is the one of the last visit, in the order of the
\* visit numbers, that returned one
HighestSuccessParsed ==
    Succeeded # {} =>
        /\ html_used \in Succeeded
        /\ \A k \in Succeeded : k <= html_used

\* C38: crawl_typecho_post starts min(max(visit_count, 1), 5) visits, at least
\* 1 and at most 5, all before any of them has ended; it returns the failure
\* result exactly when every visit failed, and otherwise parses the page of the
\* highest-numbered visit that succeeded
C38_ClampedVisitsLastSuccess ==
    /\ Launched => LaunchedCount
    /\ Returned => (AllDone /\ FailureIffAllFailed /\ HighestSuccessParsed)

\* five visits for a visit_count above five; the fifth failed, the fourth is
\* the one that is parsed although the first succeeded too
C38_Witness ==
    /\ Returned
    /\ total_visits > VisitCountCeiling
    /\ Len(tasks) = VisitCountCeiling
    /\ result[1] = "ok"
    /\ result[VisitCountCeiling] = "fail"
    /\ html_used = VisitCountCeiling - 1
    /\ report = "article"

====
